---- MODULE Spec2Model ----
(***************************************************************************)
(* Model of PSLibrary/helpers.py: the Visum block-file reader              *)
(* (read_visum_file), the writer (export_visum_file) and the sanitizer     *)
(* (_replace_invalid_visum_chars).                                         *)
(*                                                                         *)
(* A file is a sequence of one-character strings (its bytes).  Offsets     *)
(* are 0-based as in Python: the byte at offset i is m[i + 1].             *)
(* A DataFrame is a record [columns, rows]; a cell is a record             *)
(* [t, s, n] with t = "str" (value s), "int" (value n) or "nan" (empty).   *)
(***************************************************************************)
EXTENDS Integers, Sequences, FiniteSets, TLC

VARIABLES
    file,           \* bytes of the file at path / path_out
    pc,             \* position of the caller: idle, scan, ret, done, san
    block_names,    \* read_visum_file: the requested names, as a list
    list_required,  \* read_visum_file: FALSE when a single str was passed
    found_block,    \* read_visum_file: one flag per requested name
    data,           \* read_visum_file: one DataFrame per requested name
    span,           \* read_visum_file: per name, <<dollar_sign_index, start_sign_index>> of its decode
    pos,            \* read_visum_file: the position of file_map
    dollar_sign_index, \* read_visum_file: the `$` of the latest iteration
    result,         \* read_visum_file: the returned value
    dfs,            \* export_visum_file / sanitizer: the DataFrames passed in
    names,          \* export_visum_file: the block names passed in, as a list
    mode,           \* export_visum_file: the write mode
    written,        \* export_visum_file: the text handed to file.write by the call
    results         \* _replace_invalid_visum_chars: the returned list

vars == <<file, pc, block_names, list_required, found_block, data, span, pos,
          dollar_sign_index, result, dfs, names, mode, written, results>>

readVars == <<block_names, list_required, found_block, data, span, pos,
              dollar_sign_index, result>>
writeVars == <<dfs, names, mode, written, results>>

----------------------------------------------------------------------------
(* Bounds of the model *)

MaxNames == 2       \* longest list of requested block names
MaxLines == 3       \* most lines of a hand-written file
MaxTables == 2      \* longest list of DataFrames exported in one call
MaxRows == 2        \* most rows of a DataFrame given to the sanitizer

----------------------------------------------------------------------------
(* Characters and strings *)

NL == "\n"

Lower == <<"a","b","c","d","e","f","g","h","i","j","k","l","m",
           "n","o","p","q","r","s","t","u","v","w","x","y","z">>
Upper == <<"A","B","C","D","E","F","G","H","I","J","K","L","M",
           "N","O","P","Q","R","S","T","U","V","W","X","Y","Z">>
Digits == <<"0","1","2","3","4","5","6","7","8","9">>

\* str.upper() on one character
UpperChar(c) ==
    IF \E i \in 1..Len(Lower) : Lower[i] = c
    THEN Upper[CHOOSE i \in 1..Len(Lower) : Lower[i] = c]
    ELSE c

\* str.upper()
upper(s) == [i \in 1..Len(s) |-> UpperChar(s[i])]

\* sub in s
Contains(sub, s) ==
    \E i \in 0..(Len(s) - Len(sub)) : SubSeq(s, i + 1, i + Len(sub)) = sub

\* number of (possibly overlapping) occurrences of sub in s
CountOcc(sub, s) ==
    Cardinality({i \in 0..(Len(s) - Len(sub)) : SubSeq(s, i + 1, i + Len(sub)) = sub})

\* bytes.find / mmap.find of one byte c from offset start; -1 when absent
RECURSIVE Find(_, _, _)
Find(m, c, start) ==
    IF start >= Len(m) THEN -1
    ELSE IF m[start + 1] = c THEN start
    ELSE Find(m, c, start + 1)

\* mmap.readline() at offset p: up to and including the next newline, or to the end
readline(m, p) ==
    LET nl == Find(m, NL, p)
    IN  IF nl = -1 THEN SubSeq(m, p + 1, Len(m)) ELSE SubSeq(m, p + 1, nl + 1)

\* str(b): the repr of a bytes object, b'...' with the newline escaped
RECURSIVE ReprBody(_)
ReprBody(b) ==
    IF b = <<>> THEN <<>>
    ELSE (IF Head(b) = NL THEN <<"\\", "n">> ELSE <<Head(b)>>) \o ReprBody(Tail(b))

str(b) == <<"b", "'">> \o ReprBody(b) \o <<"'">>

\* s.split(sep) for a one-character sep
RECURSIVE SplitChar(_, _)
SplitChar(s, c) ==
    LET i == Find(s, c, 0)
    IN  IF i = -1 THEN <<s>>
        ELSE <<SubSeq(s, 1, i)>> \o SplitChar(SubSeq(s, i + 2, Len(s)), c)

\* s.split(sep)[-1]: what follows the last occurrence of sep, or s itself
RECURSIVE SplitLast(_, _)
SplitLast(s, sep) ==
    IF Len(sep) > 0 /\ \E i \in 0..(Len(s) - Len(sep)) : SubSeq(s, i + 1, i + Len(sep)) = sep
    THEN LET i == CHOOSE k \in 0..(Len(s) - Len(sep)) :
                     /\ SubSeq(s, k + 1, k + Len(sep)) = sep
                     /\ \A j \in 0..(k - 1) : SubSeq(s, j + 1, j + Len(sep)) # sep
         IN  SplitLast(SubSeq(s, i + Len(sep) + 1, Len(s)), sep)
    ELSE s

\* s.replace(c, by) for a one-character c
RECURSIVE Replace(_, _, _)
Replace(s, c, by) ==
    IF s = <<>> THEN <<>>
    ELSE (IF Head(s) = c THEN by ELSE <<Head(s)>>) \o Replace(Tail(s), c, by)

\* sep.join(parts)
RECURSIVE Join(_, _)
Join(parts, sep) ==
    IF parts = <<>> THEN <<>>
    ELSE IF Len(parts) = 1 THEN parts[1]
    ELSE parts[1] \o sep \o Join(Tail(parts), sep)

\* concatenation of a list of strings
RECURSIVE Concat(_)
Concat(parts) == IF parts = <<>> THEN <<>> ELSE Head(parts) \o Concat(Tail(parts))

----------------------------------------------------------------------------
(* Cells and DataFrames *)

StrCell(s) == [t |-> "str", s |-> s, n |-> 0]
IntCell(n) == [t |-> "int", s |-> <<>>, n |-> n]
NanCell == [t |-> "nan", s |-> <<>>, n |-> 0]

\* pd.DataFrame([])
EmptyFrame == [columns |-> <<>>, rows |-> <<>>]

IsDigit(c) == \E i \in 1..Len(Digits) : Digits[i] = c
DigitVal(c) == (CHOOSE i \in 1..Len(Digits) : Digits[i] = c) - 1

IsNumber(s) == s # <<>> /\ \A i \in 1..Len(s) : IsDigit(s[i])

RECURSIVE ParseInt(_)
ParseInt(s) == IF s = <<>> THEN 0 ELSE 10 * ParseInt(SubSeq(s, 1, Len(s) - 1)) + DigitVal(s[Len(s)])

RECURSIVE FormatInt(_)
FormatInt(n) == IF n < 10 THEN <<Digits[n + 1]>> ELSE FormatInt(n \div 10) \o <<Digits[(n % 10) + 1]>>

\* skipinitialspace=True: blanks after a delimiter are dropped
RECURSIVE LStrip(_)
LStrip(s) == IF s # <<>> /\ Head(s) = " " THEN LStrip(Tail(s)) ELSE s

----------------------------------------------------------------------------
(* _read_csv_file: pd.read_csv(buffer, sep=";", skipinitialspace=True,      *)
(* on_bad_lines="warn"): the first non-blank line names the columns, every  *)
(* other non-blank line is a row; a row with too many fields is dropped, a  *)
(* short row is padded with NaN; a column whose fields are all numbers is   *)
(* numeric.                                                                 *)

Fields(line) == LET f == SplitChar(line, ";") IN [i \in 1..Len(f) |-> LStrip(f[i])]

_read_csv_file(bytes) ==
    LET lines == SelectSeq(SplitChar(bytes, NL), LAMBDA l : l # <<>>)
        header == Fields(lines[1])
        width == Len(header)
        body == SelectSeq([i \in 1..(Len(lines) - 1) |-> Fields(lines[i + 1])],
                          LAMBDA f : Len(f) <= width)
        field(i, j) == IF j <= Len(body[i]) THEN body[i][j] ELSE <<>>
        numeric(j) == /\ \E i \in 1..Len(body) : field(i, j) # <<>>
                      /\ \A i \in 1..Len(body) : field(i, j) = <<>> \/ IsNumber(field(i, j))
        cell(i, j) == IF field(i, j) = <<>> THEN NanCell
                      ELSE IF numeric(j) THEN IntCell(ParseInt(field(i, j)))
                      ELSE StrCell(field(i, j))
    IN  [columns |-> header,
         rows |-> [i \in 1..Len(body) |-> [j \in 1..width |-> cell(i, j)]]]

----------------------------------------------------------------------------
(* read_visum_file *)

\* line 75 with the name left out of the pattern: any line with a `$` matches
HeaderMatchesAnyName(name, line_with_dollar) ==
    Contains(<<"$">>, str(line_with_dollar))

\* line 75: f"${name}:" in str(line_with_dollar)
HeaderMatches(name, line_with_dollar) ==
    Contains(<<"$">> \o name \o <<":">>, str(line_with_dollar))

\* line 89: the test that accepts a `*` as the end of the table
AcceptsStar(line_with_star) ==
    LET index_star == Find(line_with_star, "*", 0)
        index_semicolon == Find(line_with_star, ";", 0)
    IN  index_semicolon = -1 /\ index_star \in {0, 1}

\* lines 81-92: the index of the accepted `*` searching from position p, or -1
RECURSIVE FindEndOfTable(_, _)
FindEndOfTable(m, p) ==
    LET start_sign_index == Find(m, "*", p)
    IN  IF start_sign_index = -1 THEN -1
        ELSE LET line_with_star == readline(m, start_sign_index)
             IN  IF AcceptsStar(line_with_star) THEN start_sign_index
                 ELSE FindEndOfTable(m, start_sign_index + Len(line_with_star))

\* lines 94-95: the end of the table is the end of the file when no `*` is accepted
EndOffset(m, p) ==
    LET start_sign_index == FindEndOfTable(m, p)
    IN  IF start_sign_index = -1 THEN Len(m) ELSE start_sign_index

\* line 107: the table-name prefix is cut from every column name
StripPrefix(df_block, name) ==
    [df_block EXCEPT !.columns =
        [i \in 1..Len(df_block.columns) |->
            SplitLast(df_block.columns[i], <<"$">> \o upper(name) \o <<":">>)]]

\* lines 99-100 without the read: file_map stays at the `$`
PosAfterSeek(dollar, count) == dollar

\* lines 99-100: seek(dollar_sign_index) and read(count) leave file_map after the table
PosAfterRead(dollar, count) == dollar + count

\* lines 74-109: the for loop over the requested names for one header line,
\* from list position index on; st holds found_block, data, span and the
\* position of file_map
RECURSIVE MatchNames(_, _, _, _, _, _)
MatchNames(m, req, line_with_dollar, dollar, index, st) ==
    IF index > Len(req) THEN st
    ELSE IF ~HeaderMatches(req[index], line_with_dollar) THEN st
    ELSE LET start_sign_index == EndOffset(m, st.pos)
             count == start_sign_index - dollar
             df_block == _read_csv_file(SubSeq(m, dollar + 1, dollar + count))
         IN  MatchNames(m, req, line_with_dollar, dollar, index + 1,
                [found |-> [st.found EXCEPT ![index] = TRUE],
                 data |-> [st.data EXCEPT ![index] = StripPrefix(df_block, req[index])],
                 span |-> [st.span EXCEPT ![index] = <<dollar, start_sign_index>>],
                 pos |-> PosAfterRead(dollar, count)])

BlockNames == {<<"A">>, <<"b">>}

RECURSIVE SeqsUpTo(_, _)
SeqsUpTo(S, n) ==
    IF n = 0 THEN {<<>>}
    ELSE LET shorter == SeqsUpTo(S, n - 1)
         IN  shorter \cup {Append(s, x) : s \in {t \in shorter : Len(t) = n - 1}, x \in S}

\* lines 56-65: the argument is a str or a list; the bookkeeping starts empty
ReadStart ==
    /\ pc = "idle"
    /\ file # <<>>
    /\ \E isStr \in BOOLEAN :
          \E arg \in (IF isStr THEN {<<n>> : n \in BlockNames}
                      ELSE SeqsUpTo(BlockNames, MaxNames)) :
             /\ block_names' = arg
             /\ list_required' = ~isStr
             /\ found_block' = [i \in 1..Len(arg) |-> FALSE]
             /\ data' = [i \in 1..Len(arg) |-> EmptyFrame]
             /\ span' = [i \in 1..Len(arg) |-> <<>>]
    /\ pos' = 0
    /\ pc' = "scan"
    /\ UNCHANGED <<file, dollar_sign_index, result>>
    /\ UNCHANGED writeVars

\* line 65: mmap.mmap(fileno, 0) raises ValueError on an empty file
ReadEmpty ==
    /\ pc = "idle"
    /\ file = <<>>
    /\ pc' = "error"
    /\ UNCHANGED <<file, block_names, list_required, found_block, data, span, pos,
                   dollar_sign_index, result>>
    /\ UNCHANGED writeVars

\* lines 66-109: one pass of the while loop that finds a `$`
ScanIter ==
    /\ pc = "scan"
    /\ \E i \in 1..Len(found_block) : ~found_block[i]
    /\ Find(file, "$", pos) # -1
    /\ LET dollar == Find(file, "$", pos)
           line_with_dollar == readline(file, dollar)
           st == MatchNames(file, block_names, line_with_dollar, dollar, 1,
                    [found |-> found_block, data |-> data, span |-> span,
                     pos |-> dollar + Len(line_with_dollar)])
       IN  /\ dollar_sign_index' = dollar
           /\ found_block' = st.found
           /\ data' = st.data
           /\ span' = st.span
           /\ pos' = st.pos
    /\ UNCHANGED <<file, pc, block_names, list_required, result>>
    /\ UNCHANGED writeVars

\* lines 68-70: no `$` is left, the loop is left by break
ScanBreak ==
    /\ pc = "scan"
    /\ \E i \in 1..Len(found_block) : ~found_block[i]
    /\ Find(file, "$", pos) = -1
    /\ dollar_sign_index' = -1
    /\ pc' = "ret"
    /\ UNCHANGED <<file, block_names, list_required, found_block, data, span, pos, result>>
    /\ UNCHANGED writeVars

\* line 66: every name is found, the loop condition is false
ScanEnd ==
    /\ pc = "scan"
    /\ \A i \in 1..Len(found_block) : found_block[i]
    /\ pc' = "ret"
    /\ UNCHANGED <<file, block_names, list_required, found_block, data, span, pos,
                   dollar_sign_index, result>>
    /\ UNCHANGED writeVars

\* line 111
Return ==
    /\ pc = "ret"
    /\ result' = IF list_required THEN data ELSE data[1]
    /\ pc' = "done"
    /\ UNCHANGED <<file, block_names, list_required, found_block, data, span, pos,
                   dollar_sign_index>>
    /\ UNCHANGED writeVars

----------------------------------------------------------------------------
(* Reading hand-written files: every file of at most MaxLines lines drawn   *)
(* from RawLines.  The last line has no newline (the files that             *)
(* export_visum_file writes end with one).                                  *)

RawLines ==
    { <<"$","A",":","X",";","Y">>,          \* header of block A
      <<"$","b",":","X",";","Y">>,          \* header of block b
      <<"*">>,                              \* a comment line
      <<"X","*">>,                          \* `*` at column 1
      <<"n","*","w",";","s">>,              \* note*with;semicolon
      <<"a","b","*","c">> }                 \* `*` at column 2, no `;`

FileOf(lines) == Join(lines, <<NL>>)

NoRead ==
    /\ block_names = <<>>
    /\ list_required = TRUE
    /\ found_block = <<>>
    /\ data = <<>>
    /\ span = <<>>
    /\ pos = 0
    /\ dollar_sign_index = -1
    /\ result = <<>>

NoWrite ==
    /\ dfs = <<>>
    /\ names = <<>>
    /\ mode = "none"
    /\ written = <<>>
    /\ results = <<>>

InitRaw ==
    /\ \E lines \in SeqsUpTo(RawLines, MaxLines) : file = FileOf(lines)
    /\ pc = "idle"
    /\ NoRead
    /\ NoWrite

NextRaw == ReadStart \/ ReadEmpty \/ ScanIter \/ ScanBreak \/ ScanEnd \/ Return

SpecRaw == InitRaw /\ [][NextRaw]_vars

----------------------------------------------------------------------------
(* _replace_invalid_visum_chars *)

\* line 206: the two characters U+0E22 U+0E07 that replace a `$`
Substitute == <<"U+0E22", "U+0E07">>

\* lines 206-207 on one cell of a column that passed the test of line 203
SanitizeCell(c) ==
    IF c.t = "str"
    THEN StrCell(Replace(Replace(c.s, "$", Substitute), ";", <<",">>))
    ELSE c

\* line 203: the column has a row and its first value is a str
IsStringColumn(dataframe, j) ==
    Len(dataframe.rows) > 0 /\ dataframe.rows[1][j].t = "str"

\* lines 201-209 for one DataFrame
SanitizeFrame(dataframe) ==
    [dataframe EXCEPT !.rows =
        [i \in 1..Len(dataframe.rows) |->
            [j \in 1..Len(dataframe.columns) |->
                IF IsStringColumn(dataframe, j)
                THEN SanitizeCell(dataframe.rows[i][j])
                ELSE dataframe.rows[i][j]]]]

\* lines 198-213
_replace_invalid_visum_chars(dataframes) ==
    [k \in 1..Len(dataframes) |-> SanitizeFrame(dataframes[k])]

----------------------------------------------------------------------------
(* export_visum_file *)

\* line 130: now.strftime('%d/%m/%Y')
datetime_string == <<"0","4","/","1","1","/","2","0","2","6">>

file_type == <<"N","e","t">>

\* line 139: encoding='utf-8-sig' puts the byte-order mark before the first write
BOM == <<"EF", "BB", "BF">>

\* lines 142-143
HeaderBlock ==
    <<"$","V","I","S","I","O","N",NL>>
    \o <<"*"," ">> \o datetime_string \o <<NL>>
    \o <<"$","V","E","R","S","I","O","N",":">>
    \o <<"V","E","R","S","N","R",";","F","I","L","E","T","Y","P","E",";">>
    \o <<"L","A","N","G","U","A","G","E",";","U","N","I","T",NL>>
    \o <<NL,"1","0",".","0","0","0",";">> \o file_type \o <<";","E","N","G",";","K","M",NL,NL>>

\* to_csv on one cell: a str as it is, a number in digits, NaN as nothing
CellText(c) == IF c.t = "str" THEN c.s ELSE IF c.t = "int" THEN FormatInt(c.n) ELSE <<>>

\* line 148: df_out.to_csv(file, ";", index=False, header=False, lineterminator='\n')
to_csv(df_out) ==
    Concat([i \in 1..Len(df_out.rows) |->
        Join([j \in 1..Len(df_out.rows[i]) |-> CellText(df_out.rows[i][j])], <<";">>) \o <<NL>>])

\* lines 146-148: the banner, the header line and the rows of one table
TableBlock(df_out, table_name) ==
    LET attr_names == upper(Join(df_out.columns, <<";">>))
    IN  <<"*",NL,"*"," ","T","a","b","l","e",":"," ">> \o table_name \o <<NL,"*",NL>>
        \o <<"$">> \o table_name \o <<":">> \o attr_names \o <<NL>>
        \o to_csv(df_out)

Min(a, b) == IF a < b THEN a ELSE b

\* lines 145-149: zip(dfs, block_names, block_names) stops at the shorter list
TableBlocks(frames, tnames) ==
    Concat([k \in 1..Min(Len(frames), Len(tnames)) |-> TableBlock(frames[k], tnames[k])])

\* line 141 with the test widened to the append mode
WritesHeaderInAnyMode(m) == m \in {"w", "a+"}

\* line 141: the header block is written in mode 'w' only
WritesHeader(m) == m = "w"

\* lines 141-149: everything the call hands to file.write
ExportText(frames, tnames, m) ==
    (IF WritesHeader(m) THEN HeaderBlock ELSE <<>>) \o TableBlocks(frames, tnames)

\* line 139: open(path_out, mode): 'w' truncates, 'a+' keeps the old bytes
OpenedFile(old, m) == IF m = "w" THEN <<>> ELSE old

\* the bytes of the file after the with block
FileAfter(old, text, m) ==
    LET kept == OpenedFile(old, m)
    IN  kept \o (IF kept = <<>> /\ text # <<>> THEN BOM ELSE <<>>) \o text

Modes == {"w", "a+"}

ExportTables ==
    { [columns |-> << <<"n","o">>, <<"n","a","m","e">> >>,
       rows |-> << <<IntCell(1), StrCell(<<"a">>)>>, <<IntCell(2), StrCell(<<"b">>)>> >>],
      [columns |-> << <<"N","O">>, <<"N","A","M","E">> >>,
       rows |-> << <<IntCell(1), StrCell(<<"a","*","b">>)>>, <<IntCell(2), StrCell(<<"c">>)>> >>],
      [columns |-> << <<"N","O">> >>,
       rows |-> << <<StrCell(<<"a","$","b",";","c">>)>> >>] }

\* lines 125-149: dfs is one DataFrame with one name, or a list with a list of names
export_visum_file ==
    /\ pc = "idle"
    /\ mode = "none"
    /\ \E isList \in BOOLEAN, m \in Modes :
          \E n \in (IF isList THEN 0..MaxTables ELSE {1}) :
             \E frames \in [1..n -> ExportTables], tnames \in [1..n -> BlockNames] :
                LET clean == _replace_invalid_visum_chars(frames)
                    text == ExportText(clean, tnames, m)
                IN  /\ dfs' = frames
                    /\ names' = tnames
                    /\ mode' = m
                    /\ results' = clean
                    /\ written' = text
                    /\ file' = FileAfter(file, text, m)
    /\ UNCHANGED pc
    /\ UNCHANGED readVars

\* a file left by an earlier call in mode 'w'
ExistingFile ==
    LET old == [columns |-> << <<"N","O">> >>, rows |-> << <<IntCell(7)>> >>]
    IN  FileAfter(<<>>, ExportText(<<old>>, << <<"b">> >>, "w"), "w")

Init ==
    /\ file \in {<<>>, ExistingFile}
    /\ pc = "idle"
    /\ NoRead
    /\ NoWrite

Next == export_visum_file \/ ReadStart \/ ReadEmpty \/ ScanIter \/ ScanBreak \/ ScanEnd \/ Return

Spec == Init /\ [][Next]_vars

----------------------------------------------------------------------------
(* The sanitizer on its own: every DataFrame of at most MaxRows rows and    *)
(* one or two columns over SanCells, alone or after another DataFrame.      *)

SanCells == {IntCell(1), NanCell, StrCell(<<"a">>), StrCell(<<"a","$","b",";","c">>)}

SanColumns == { << <<"X">> >>, << <<"X">>, <<"Y">> >> }

SanTables ==
    UNION {UNION {{[columns |-> cols, rows |-> r] :
                      r \in [1..n -> [1..Len(cols) -> SanCells]]} :
                  n \in 0..MaxRows} :
           cols \in SanColumns}

InitSan ==
    /\ \E t \in SanTables : \E u \in ExportTables : dfs \in {<<t>>, <<u, t>>}
    /\ file = <<>>
    /\ pc = "san"
    /\ names = <<>>
    /\ mode = "none"
    /\ written = <<>>
    /\ results = <<>>
    /\ NoRead

Sanitize ==
    /\ pc = "san"
    /\ results' = _replace_invalid_visum_chars(dfs)
    /\ pc' = "sanitized"
    /\ UNCHANGED <<file, dfs, names, mode, written>>
    /\ UNCHANGED readVars

NextSan == Sanitize

SpecSan == InitSan /\ [][NextSan]_vars

----------------------------------------------------------------------------
(* What the claims speak about *)

\* the text `$NAME:` that opens the header line of block NAME
Pattern(name) == <<"$">> \o name \o <<":">>

\* the offsets of the file at which a header line of block name begins
HeaderOffsets(m, name) ==
    {d \in 0..(Len(m) - Len(Pattern(name))) :
        SubSeq(m, d + 1, d + Len(Pattern(name))) = Pattern(name)}

HasBlock(m, name) == HeaderOffsets(m, name) # {}

FirstHeader(m, name) ==
    CHOOSE d \in HeaderOffsets(m, name) : \A e \in HeaderOffsets(m, name) : d <= e

\* the offset of the first byte of the line that holds offset i
LineStart(m, i) ==
    IF \E k \in 0..(i - 1) : m[k + 1] = NL
    THEN 1 + CHOOSE k \in 0..(i - 1) : m[k + 1] = NL /\ \A l \in (k + 1)..(i - 1) : m[l + 1] # NL
    ELSE 0

\* the offset just after the last byte (newline excluded) of the line that holds offset i
LineStop(m, i) ==
    IF \E k \in i..(Len(m) - 1) : m[k + 1] = NL
    THEN CHOOSE k \in i..(Len(m) - 1) : m[k + 1] = NL /\ \A l \in i..(k - 1) : m[l + 1] # NL
    ELSE Len(m)

\* the offset of the first byte after the line that holds offset i
NextLine(m, i) == IF LineStop(m, i) < Len(m) THEN LineStop(m, i) + 1 ELSE Len(m)

\* a `*` that ends a block: at column 0 or 1 of a line that holds no `;`
ValidTerminator(m, i) ==
    /\ m[i + 1] = "*"
    /\ i - LineStart(m, i) \in {0, 1}
    /\ \A k \in LineStart(m, i)..(LineStop(m, i) - 1) : m[k + 1] # ";"

\* the first valid terminator at or after offset from, or the size of the file
TerminatorFrom(m, from) ==
    IF \E i \in from..(Len(m) - 1) : ValidTerminator(m, i)
    THEN CHOOSE i \in from..(Len(m) - 1) :
            ValidTerminator(m, i) /\ \A k \in from..(i - 1) : ~ValidTerminator(m, k)
    ELSE Len(m)

\* the block that begins at offset d has a row: a line follows the header
\* line and does not open with `*`
HasRows(m, d) == NextLine(m, d) < Len(m) /\ m[NextLine(m, d) + 1] # "*"

Distinct(s) == \A i, j \in 1..Len(s) : i # j => s[i] # s[j]

\* the Table returned for request position i
ResultAt(i) == IF list_required THEN result[i] ELSE result

HasChar(c, s) == \E i \in 1..Len(s) : s[i] = c

StartsWith(s, prefix) == Len(s) >= Len(prefix) /\ SubSeq(s, 1, Len(prefix)) = prefix

----------------------------------------------------------------------------
(* C1: a list request is answered in request order: for a file that holds   *)
(* block A before block B, both with rows, the request [B, A] returns the   *)
(* decoded block B at position 0 and the decoded block A at position 1,     *)
(* both non-empty.                                                          *)
RequestOrderNotFileOrder ==
    (/\ pc = "done"
     /\ list_required
     /\ Len(block_names) = 2
     /\ block_names[1] # block_names[2]
     /\ HasBlock(file, block_names[1])
     /\ HasBlock(file, block_names[2])
     /\ FirstHeader(file, block_names[2]) < FirstHeader(file, block_names[1])
     /\ HasRows(file, FirstHeader(file, block_names[1]))
     /\ HasRows(file, FirstHeader(file, block_names[2])))
    => \A k \in 1..2 :
          /\ result[k].rows # <<>>
          /\ span[k] # <<>>
          /\ span[k][1] \in HeaderOffsets(file, block_names[k])

(* C2: for a request of distinct names, every requested name whose header   *)
(* line `$NAME:` occurs in the file is marked found and its result is the   *)
(* decoded block of that name, not an empty Table.                          *)
EveryPresentNameIsFound ==
    (pc = "done" /\ Distinct(block_names))
    => \A i \in 1..Len(block_names) :
          HasBlock(file, block_names[i])
          => /\ found_block[i]
             /\ ResultAt(i) # EmptyFrame
             /\ span[i] # <<>>
             /\ span[i][1] \in HeaderOffsets(file, block_names[i])

(* C3: the `*` that ends a decoded block is on a line without `;` and at    *)
(* column 0 or 1 of that line; every other `*` is data and is passed over,  *)
(* so the block ends at the first such `*` after its header line, or at     *)
(* the end of the file.                                                     *)
TerminatorNeedsLineStartAndNoSemicolon ==
    \A i \in 1..Len(span) :
        span[i] # <<>> => span[i][2] = TerminatorFrom(file, NextLine(file, span[i][1]))

(* C4: a Table without `$` and `;` in its string cells, written in create   *)
(* mode under a block name and read back under that name, comes back with   *)
(* the same column names (case-insensitively) and the same cell values in   *)
(* the same order, also when other tables follow it in the file and when    *)
(* cells contain `*`.                                                       *)
RoundTrip ==
    (/\ pc = "done"
     /\ mode = "w"
     /\ ~list_required
     /\ \E k \in 1..Len(names) : names[k] = block_names[1])
    => LET k == CHOOSE k \in 1..Len(names) :
                   names[k] = block_names[1] /\ \A l \in 1..(k - 1) : names[l] # block_names[1]
           clean == \A i \in 1..Len(dfs[k].rows) : \A j \in 1..Len(dfs[k].rows[i]) :
                       ~HasChar("$", dfs[k].rows[i][j].s) /\ ~HasChar(";", dfs[k].rows[i][j].s)
       IN  clean => /\ Len(result.columns) = Len(dfs[k].columns)
                    /\ \A j \in 1..Len(dfs[k].columns) :
                          upper(result.columns[j]) = upper(dfs[k].columns[j])
                    /\ result.rows = dfs[k].rows

(* C5: the sanitizer rewrites every string cell of every column of every    *)
(* Table: `$` becomes the substitute, `;` becomes `,`; cells that are not   *)
(* strings are unchanged; no string cell holds `$` or `;` afterwards,       *)
(* whatever the row of the cell and whatever the first cell of its column.  *)
SanitizerRewritesEveryStringCell ==
    pc = "sanitized"
    => /\ Len(results) = Len(dfs)
       /\ \A k \in 1..Len(dfs) :
             /\ results[k].columns = dfs[k].columns
             /\ Len(results[k].rows) = Len(dfs[k].rows)
             /\ \A i \in 1..Len(dfs[k].rows) : \A j \in 1..Len(dfs[k].columns) :
                   LET before == dfs[k].rows[i][j]
                       after == results[k].rows[i][j]
                   IN  IF before.t = "str"
                       THEN /\ after = StrCell(Replace(Replace(before.s, "$", Substitute), ";", <<",">>))
                            /\ ~HasChar("$", after.s)
                            /\ ~HasChar(";", after.s)
                       ELSE after = before

(* C6: whenever a requested name matches a header line, in whatever case    *)
(* the file uses, the first column name of its Table comes back without     *)
(* the `$name:` prefix.                                                     *)
PrefixIsStrippedInAnyCase ==
    \A i \in 1..Len(found_block) :
        found_block[i]
        => LET d == span[i][1]
               first == SplitChar(SubSeq(file, d + 1, LineStop(file, d)), ";")[1]
           IN  /\ StartsWith(first, Pattern(block_names[i]))
               /\ data[i].columns[1] = SubSeq(first, Len(Pattern(block_names[i])) + 1, Len(first))

(* C7: a requested name without a header line in the file yields an empty   *)
(* Table and no failure; a single name returns a single Table, a list of n  *)
(* names returns n Tables, and entry i is either empty or the decoded       *)
(* block of requested name i.                                               *)
ResultFollowsRequest ==
    /\ pc = "error" => file = <<>>
    /\ pc = "done"
       => /\ IF list_required
             THEN DOMAIN result = 1..Len(block_names)
             ELSE Len(block_names) = 1 /\ DOMAIN result = {"columns", "rows"}
          /\ \A i \in 1..Len(block_names) :
                /\ ~HasBlock(file, block_names[i]) => ResultAt(i) = EmptyFrame
                /\ ResultAt(i) # EmptyFrame
                   => /\ span[i] # <<>>
                      /\ span[i][1] \in HeaderOffsets(file, block_names[i])
                      /\ ResultAt(i) = StripPrefix(
                            _read_csv_file(SubSeq(file, span[i][1] + 1, span[i][2])),
                            block_names[i])

\* a list of two names: the first is found, the second has no block in the file
MissingBlockSeen ==
    /\ pc = "done"
    /\ list_required
    /\ Len(block_names) = 2
    /\ found_block[1]
    /\ result[1].rows # <<>>
    /\ ~HasBlock(file, block_names[2])
    /\ result[2] = EmptyFrame

(* C8: the `$VISION`/`$VERSION` header block is written if and only if the  *)
(* mode is `w`: then once, and before any table block; in append mode never,*)
(* whether or not the file existed and for any number of tables.            *)
HeaderOnlyInCreateMode ==
    LET vision == <<"$","V","I","S","I","O","N">>
        version == <<"$","V","E","R","S","I","O","N",":">>
        banner == <<"*"," ","T","a","b","l","e",":">>
        firstAt(sub) == CHOOSE i \in 0..(Len(written) - Len(sub)) :
                            /\ SubSeq(written, i + 1, i + Len(sub)) = sub
                            /\ \A k \in 0..(i - 1) : SubSeq(written, k + 1, k + Len(sub)) # sub
    IN  /\ mode = "w"
           => /\ StartsWith(written, vision)
              /\ CountOcc(vision, written) = 1
              /\ CountOcc(version, written) = 1
              /\ CountOcc(banner, written) > 0 => firstAt(version) < firstAt(banner)
              /\ StartsWith(file, BOM \o vision)
        /\ mode = "a+"
           => /\ CountOcc(vision, written) = 0
              /\ CountOcc(version, written) = 0
              /\ CountOcc(banner, written) = Len(dfs)

\* two tables appended to a file that existed before the call
AppendedToExistingFile ==
    /\ mode = "a+"
    /\ Len(dfs) = 2
    /\ Len(file) > Len(written)
    /\ CountOcc(<<"*"," ","T","a","b","l","e",":">>, written) = 2

(* C9: for every decoded block, startOffset < endOffset, startOffset is the *)
(* `$` that begins the matched header line, and endOffset is the first      *)
(* valid terminator `*` after the header line or the size of the file;      *)
(* also for names matched on the same header line.                          *)
SpanOfDecodedBlock ==
    \A i \in 1..Len(found_block) :
        found_block[i]
        => /\ span[i] # <<>>
           /\ span[i][1] < span[i][2]
           /\ span[i][1] \in HeaderOffsets(file, block_names[i])
           /\ span[i][2] <= Len(file)
           /\ span[i][2] = TerminatorFrom(file, NextLine(file, span[i][1]))

(* C10: the scan is forward-only and ends: each pass of the loop looks for  *)
(* the first `$` at or after the cursor and leaves the cursor beyond it and *)
(* within the file, the loop is left when every name is found or no `$` is  *)
(* left after the cursor, and every read reaches its return.                *)
ScanStepForward ==
    (pc = "scan" /\ pc' = "scan" /\ pos' # pos)
    => /\ dollar_sign_index' >= pos
       /\ file[dollar_sign_index' + 1] = "$"
       /\ \A k \in pos..(dollar_sign_index' - 1) : file[k + 1] # "$"
       /\ pos' > dollar_sign_index'
       /\ pos' <= Len(file)

ScanLeaves ==
    (pc = "scan" /\ pc' = "ret")
    => \/ \A i \in 1..Len(found_block) : found_block[i]
       \/ \A k \in pos..(Len(file) - 1) : file[k + 1] # "$"

ScanStays ==
    (pc = "scan" /\ pc' = "scan")
    => /\ pos' > pos
       /\ \E i \in 1..Len(found_block) : ~found_block[i]

ForwardOnlyAndTerminates ==
    /\ [][ScanStepForward /\ ScanLeaves /\ ScanStays]_vars
    /\ (pc = "scan") ~> (pc = "done")

\* the loop ran out of `$` after it decoded one block, another name still missing
ScanExhausted ==
    /\ pc = "done"
    /\ dollar_sign_index = -1
    /\ pos > 0
    /\ \E i \in 1..Len(found_block) : found_block[i]
    /\ \E i \in 1..Len(found_block) : ~found_block[i]

\* a pass of the while loop can be taken: <<ScanIter>>_vars is enabled
ScanIterEnabled ==
    /\ pc = "scan"
    /\ \E i \in 1..Len(found_block) : ~found_block[i]
    /\ Find(file, "$", pos) # -1

\* The call runs on one thread and never waits: every step that can be taken
\* is taken.  The last conjunct is WF_vars(ScanIter) with ENABLED written out.
FairSpecRaw ==
    /\ SpecRaw
    /\ WF_vars(ScanBreak)
    /\ WF_vars(ScanEnd)
    /\ WF_vars(Return)
    /\ ([]<>(~ScanIterEnabled) \/ []<><<ScanIter>>_vars)

====
